---- MODULE Spec2Model ----
(***************************************************************************)
(* Model of the U = V D V^dagger decomposition test (test_decomposition.py) *)
(* and of the dependency bootstrap (install_prereqs.py).                   *)
(*                                                                         *)
(* Numbers.  A complex number is a Gaussian integer <<re, im>>.  A rotation *)
(* angle is an integer k standing for k * pi radians, so that the phases   *)
(* exp(+-1j * angle / 2) of the RZ branch are the powers i^k and i^(-k) of  *)
(* the imaginary unit and every product the program forms is exact.        *)
(* A matrix is a function row -> column -> entry over 0 .. dim-1.           *)
(***************************************************************************)
EXTENDS Integers, Sequences, FiniteSets, TLC

VARIABLES
    \* one call of gates_to_matrix
    num_qubits, circuit, pos, matrix, pc, error,
    \* the driver loop
    step, pattern_idx, U_original, D, V, V_circuit, D_circuit,
    V_reconstructed, D_reconstructed, V_dagger_circuit,
    V_dagger_reconstructed, U_reconstructed, is_accurate, stdout, trace,
    \* _ensure_packages
    ipc, importable, conda, conda_calls, missing, pip_calls, pip_args,
    pip_result, env_at_pip, exit_status

evalVars == <<num_qubits, circuit, pos, matrix, pc, error>>
driverVars == <<step, pattern_idx, U_original, D, V, V_circuit, D_circuit,
                V_reconstructed, D_reconstructed, V_dagger_circuit,
                V_dagger_reconstructed, U_reconstructed, is_accurate,
                stdout, trace>>
installVars == <<ipc, importable, conda, conda_calls, missing, pip_calls,
                 pip_args, pip_result, env_at_pip, exit_status>>
vars == <<evalVars, driverVars, installVars>>

(***************************************************************************)
(* Bounds of the model.                                                    *)
(***************************************************************************)
\* largest num_qubits a direct call of gates_to_matrix is given
MaxQubits == 2
\* longest circuit a direct call of gates_to_matrix is given
MaxLen == 2
\* rotation angles, in units of pi
Angles == {1, 2}

(***************************************************************************)
(* Complex arithmetic over the Gaussian integers.                          *)
(***************************************************************************)
Zero == <<0, 0>>
One == <<1, 0>>
CAdd(a, b) == <<a[1] + b[1], a[2] + b[2]>>
CMul(a, b) == <<a[1] * b[1] - a[2] * b[2], a[1] * b[2] + a[2] * b[1]>>
CConj(a) == <<a[1], 0 - a[2]>>

\* np.exp(1j * angle / 2) for angle = k * pi: the k-th power of i
ExpHalfAngle(k) ==
    CASE k % 4 = 0 -> <<1, 0>>
      [] k % 4 = 1 -> <<0, 1>>
      [] k % 4 = 2 -> <<-1, 0>>
      [] k % 4 = 3 -> <<0, -1>>

(***************************************************************************)
(* Integer operations of the loop bodies.                                  *)
(***************************************************************************)
RECURSIVE Pow2(_)
\* 2**n and 1 << n for n >= 0
Pow2(n) ==
    IF n = 0 THEN 1 ELSE 2 * Pow2(n - 1)

\* (i >> q) & 1 for i >= 0, q >= 0
ShiftAnd1(i, q) ==
    (i \div Pow2(q)) % 2

RECURSIVE BitXor(_, _)
\* a ^ b for a, b >= 0
BitXor(a, b) ==
    IF a = 0 /\ b = 0 THEN 0
    ELSE (((a % 2) + (b % 2)) % 2) + 2 * BitXor(a \div 2, b \div 2)

(***************************************************************************)
(* Matrices.                                                               *)
(***************************************************************************)
\* f itself, with every value of it computed once and kept: an array in
\* memory rather than a rule evaluated again at each access
Stored(f) ==
    IF f = f THEN f ELSE f

\* np.eye(dim, dtype=np.complex128)
Eye(dim) ==
    Stored([r \in 0 .. dim - 1 |-> [c \in 0 .. dim - 1 |-> IF r = c THEN One ELSE Zero]])

RECURSIVE DotFrom(_, _, _, _, _, _)
\* sum over k in from .. dim-1 of A[r][k] * B[k][c]
DotFrom(A, B, r, c, from, dim) ==
    IF from = dim THEN Zero
    ELSE CAdd(CMul(A[r][from], B[from][c]), DotFrom(A, B, r, c, from + 1, dim))

\* A @ B
MatMul(A, B) ==
    LET dim == Cardinality(DOMAIN A) IN
    Stored([r \in 0 .. dim - 1 |-> [c \in 0 .. dim - 1 |-> DotFrom(A, B, r, c, 0, dim)]])

\* M.conj().T
ConjT(M) ==
    Stored([r \in DOMAIN M |-> [c \in DOMAIN M |-> CConj(M[c][r])]])

(***************************************************************************)
(* Gates.  A gate is (gate_type, params): ("CNOT", (control, target)) or    *)
(* ("RZ", (angle, qubit)); any other gate_type falls through the if/elif.   *)
(***************************************************************************)
CNOT(control, target) == [gate_type |-> "CNOT", params |-> <<control, target>>]
RZ(angle, qubit) == [gate_type |-> "RZ", params |-> <<angle, qubit>>]
OtherGate == [gate_type |-> "H", params |-> <<0>>]

\* an exception leaving the loop body
Raise(name) == [ok |-> FALSE, exc |-> name]
Built(m) == [ok |-> TRUE, m |-> m]

RECURSIVE CnotLoop(_, _, _, _, _)
\* for i in range(dim): if (i >> control) & 1: j = i ^ (1 << target);
\*     cnot[i, i] = 0; cnot[j, i] = 1
CnotLoop(i, cnot, control, target, dim) ==
    IF i = dim THEN Built(cnot)
    ELSE IF control < 0 THEN Raise("ValueError")
    ELSE IF ShiftAnd1(i, control) = 1
         THEN IF target < 0 THEN Raise("ValueError")
              ELSE LET j == BitXor(i, Pow2(target)) IN
                   IF j >= dim THEN Raise("IndexError")
                   ELSE CnotLoop(i + 1,
                                 [[cnot EXCEPT ![i][i] = Zero] EXCEPT ![j][i] = One],
                                 control, target, dim)
         ELSE CnotLoop(i + 1, cnot, control, target, dim)

RECURSIVE CnotLoopKeepDiagonal(_, _, _, _, _)
\* mutant of the loop: the assignment cnot[i, i] = 0 is left out
CnotLoopKeepDiagonal(i, cnot, control, target, dim) ==
    IF i = dim THEN Built(cnot)
    ELSE IF control < 0 THEN Raise("ValueError")
    ELSE IF ShiftAnd1(i, control) = 1
         THEN IF target < 0 THEN Raise("ValueError")
              ELSE LET j == BitXor(i, Pow2(target)) IN
                   IF j >= dim THEN Raise("IndexError")
                   ELSE CnotLoopKeepDiagonal(i + 1, [cnot EXCEPT ![j][i] = One],
                                             control, target, dim)
         ELSE CnotLoopKeepDiagonal(i + 1, cnot, control, target, dim)

\* mutant of BuildCnot: the flipped columns keep their diagonal 1
BuildCnotKeepDiagonal(params, dim) ==
    CnotLoopKeepDiagonal(0, Eye(dim), params[1], params[2], dim)

\* the CNOT branch up to the product: cnot = np.eye(dim); the loop over i
BuildCnot(params, dim) ==
    CnotLoop(0, Eye(dim), params[1], params[2], dim)

RECURSIVE RzLoop(_, _, _, _, _)
\* for i in range(dim): rz[i, i] = exp(-1j*angle/2) if (i >> qubit) & 1
\*     else exp(1j*angle/2)
RzLoop(i, rz, angle, qubit, dim) ==
    IF i = dim THEN Built(rz)
    ELSE IF qubit < 0 THEN Raise("ValueError")
    ELSE IF ShiftAnd1(i, qubit) = 1
         THEN RzLoop(i + 1, [rz EXCEPT ![i][i] = ExpHalfAngle(0 - angle)],
                     angle, qubit, dim)
         ELSE RzLoop(i + 1, [rz EXCEPT ![i][i] = ExpHalfAngle(angle)],
                     angle, qubit, dim)

\* mutant of BuildRz: the two phases exchanged
BuildRzSwapped(params, dim) ==
    RzLoop(0, Eye(dim), 0 - params[1], params[2], dim)

\* the RZ branch up to the product: rz = np.eye(dim); the loop over i
BuildRz(params, dim) ==
    RzLoop(0, Eye(dim), params[1], params[2], dim)

\* the matrix a loop iteration builds for one gate, or the exception it raises
BuildGate(gate, dim) ==
    IF gate.gate_type = "CNOT" THEN BuildCnot(gate.params, dim)
    ELSE IF gate.gate_type = "RZ" THEN BuildRz(gate.params, dim)
    ELSE Built(Eye(dim))

\* mutant of Compose: the product taken in the other order
ComposeRight(gate_matrix, m) ==
    MatMul(m, gate_matrix)

\* matrix = cnot @ matrix, matrix = rz @ matrix
Compose(gate_matrix, m) ==
    MatMul(gate_matrix, m)

(***************************************************************************)
(* One call of gates_to_matrix(circuit, num_qubits), a loop iteration per   *)
(* step.  pc is "loop" inside the for loop, "returned" after the return,    *)
(* "raised" when an exception left the call, "idle" when no call is active. *)
(***************************************************************************)
Dim == Pow2(num_qubits)

\* dim = 2**num_qubits; matrix = np.eye(dim)
Enter(c, n) ==
    /\ circuit' = c
    /\ num_qubits' = n
    /\ pos' = 1
    /\ matrix' = Eye(Pow2(n))
    /\ pc' = "loop"
    /\ error' = "none"

InLoop == pc = "loop" /\ pos <= Len(circuit)

\* if gate_type == "CNOT": ... matrix = cnot @ matrix
StepCNOT ==
    /\ InLoop
    /\ circuit[pos].gate_type = "CNOT"
    /\ LET b == BuildCnot(circuit[pos].params, Dim) IN
       /\ b.ok
       /\ matrix' = Compose(b.m, matrix)
    /\ pos' = pos + 1
    /\ UNCHANGED <<num_qubits, circuit, pc, error>>

\* elif gate_type == "RZ": ... matrix = rz @ matrix
StepRZ ==
    /\ InLoop
    /\ circuit[pos].gate_type = "RZ"
    /\ LET b == BuildRz(circuit[pos].params, Dim) IN
       /\ b.ok
       /\ matrix' = Compose(b.m, matrix)
    /\ pos' = pos + 1
    /\ UNCHANGED <<num_qubits, circuit, pc, error>>

\* neither branch taken: the gate is passed over
StepOther ==
    /\ InLoop
    /\ circuit[pos].gate_type \notin {"CNOT", "RZ"}
    /\ pos' = pos + 1
    /\ UNCHANGED <<num_qubits, circuit, matrix, pc, error>>

\* an index or shift error inside a branch ends the call
StepRaise ==
    /\ InLoop
    /\ LET b == BuildGate(circuit[pos], Dim) IN
       /\ ~b.ok
       /\ error' = b.exc
    /\ pc' = "raised"
    /\ UNCHANGED <<num_qubits, circuit, pos, matrix>>

\* return matrix
Return ==
    /\ pc = "loop"
    /\ pos > Len(circuit)
    /\ pc' = "returned"
    /\ UNCHANGED <<num_qubits, circuit, pos, matrix, error>>

(***************************************************************************)
(* Inputs of a direct call: any qubit count up to MaxQubits and any list of *)
(* at most MaxLen gates whose indices range over 0 .. num_qubits, the last  *)
(* one being out of range, and -1.                                         *)
(***************************************************************************)
Indices(n) == -1 .. n

GateInputs(n) ==
    {CNOT(c, t) : c \in Indices(n), t \in Indices(n)}
    \cup {RZ(a, q) : a \in Angles, q \in Indices(n)}
    \cup {OtherGate}

SeqsUpTo(S, k) == UNION {[1 .. m -> S] : m \in 0 .. k}

DriverIdle ==
    /\ step = "idle"
    /\ pattern_idx = 0
    /\ U_original = <<>>
    /\ D = <<>>
    /\ V = <<>>
    /\ V_circuit = <<>>
    /\ D_circuit = <<>>
    /\ V_reconstructed = <<>>
    /\ D_reconstructed = <<>>
    /\ V_dagger_circuit = <<>>
    /\ V_dagger_reconstructed = <<>>
    /\ U_reconstructed = <<>>
    /\ is_accurate = FALSE
    /\ stdout = {}
    /\ trace = <<>>

InstallIdle ==
    /\ ipc = "idle"
    /\ importable = {}
    /\ conda = FALSE
    /\ conda_calls = 0
    /\ missing = <<>>
    /\ pip_calls = 0
    /\ pip_args = <<>>
    /\ pip_result = "none"
    /\ env_at_pip = {}
    /\ exit_status = -1

Init ==
    /\ num_qubits \in 1 .. MaxQubits
    /\ circuit \in SeqsUpTo(GateInputs(num_qubits), MaxLen)
    /\ pos = 1
    /\ matrix = Eye(Pow2(num_qubits))
    /\ pc = "loop"
    /\ error = "none"
    /\ DriverIdle
    /\ InstallIdle

Next ==
    \/ StepCNOT /\ UNCHANGED <<driverVars, installVars>>
    \/ StepRZ /\ UNCHANGED <<driverVars, installVars>>
    \/ StepOther /\ UNCHANGED <<driverVars, installVars>>
    \/ StepRaise /\ UNCHANGED <<driverVars, installVars>>
    \/ Return /\ UNCHANGED <<driverVars, installVars>>

Spec == Init /\ [][Next]_vars

(***************************************************************************)
(* The whole call as one function, for callers that use only its result.    *)
(***************************************************************************)
RECURSIVE ComposeFirst(_, _, _)
\* the matrix held after the first k loop iterations
ComposeFirst(c, k, dim) ==
    IF k = 0 THEN Eye(dim)
    ELSE Compose(BuildGate(c[k], dim).m, ComposeFirst(c, k - 1, dim))

\* gates_to_matrix(c, n) for a circuit no gate of which raises
GatesToMatrix(c, n) ==
    ComposeFirst(c, Len(c), Pow2(n))

(***************************************************************************)
(* The driver.  Its three collaborators are imported from modules that are  *)
(* not part of the sources at hand (density_qnn, walsh_circuit_decomposition)*)
(* and are modelled from their contracts in the specification document.     *)
(* Matrices with irrational or fractional entries are carried as a Gaussian *)
(* integer matrix mat and a number den2, standing for mat / sqrt(den2).     *)
(***************************************************************************)
\* patterns = ['pyramid', 'x_circuit', 'butterfly', 'round_robin']
patterns == <<"pyramid", "x_circuit", "butterfly", "round_robin">>

\* qubits: the driver's qubit count, 4 in the source, scaled down to 2 here
\* so that every product of the run is enumerated exactly
qubits == 2

Scaled(m, d2) == [mat |-> m, den2 |-> d2]

\* s * G for an integer s
ScalarMul(s, G) ==
    [r \in DOMAIN G |-> [c \in DOMAIN G |-> <<s * G[r][c][1], s * G[r][c][2]>>]]

\* whether the scaled matrix S and the exact matrix G are the same matrix
SameMatrix(S, G) ==
    \E s \in 1 .. S.den2 : s * s = S.den2 /\ S.mat = ScalarMul(s, G)

\* rotation parameters of the one RBS gate a two-qubit network holds:
\* cos = c / den, sin = s / den.  Angle 0 and a generic angle.
RBSParameters == {[c |-> 1, s |-> 0, den |-> 1], [c |-> 3, s |-> 4, den |-> 5]}

\* the RBS gate on qubits 0 and 1: a rotation of the basis states 01 and 10,
\* the identity on 00 and 11
RBSMatrix(par, dim) ==
    Scaled([r \in 0 .. dim - 1 |-> [c \in 0 .. dim - 1 |->
                IF r = c THEN (IF r \in {1, 2} THEN <<par.c, 0>> ELSE <<par.den, 0>>)
                ELSE IF r = 1 /\ c = 2 THEN <<par.s, 0>>
                ELSE IF r = 2 /\ c = 1 THEN <<0 - par.s, 0>>
                ELSE Zero]],
           par.den * par.den)

\* create_rbs_network_from_pattern(pattern_name, qubits): every topology
\* couples the only pair of a two-qubit register; the angle is not fixed
CreateRbsNetwork(pattern_name, n) ==
    {RBSMatrix(par, Pow2(n)) : par \in RBSParameters}

IsDiagonalMatrix(M) ==
    \A r \in DOMAIN M : \A c \in DOMAIN M : r # c => M[r][c] = Zero

\* diagonalize_unitary(U): (D, V) with U = V D V^dagger.  A diagonal U is its
\* own D with V the identity; the rotation block has the eigenvectors
\* (e1 + i e2), (e1 - i e2) with eigenvalues cos + i sin, cos - i sin, and
\* the eigenvalue 1 has the eigenvectors (e0 + e3), (e0 - e3), all of
\* squared norm 2.
DiagonalizeUnitary(U) ==
    LET dim == Cardinality(DOMAIN U.mat) IN
    IF IsDiagonalMatrix(U.mat)
    THEN [D |-> U, V |-> Scaled(Eye(dim), 1)]
    ELSE [D |-> Scaled([r \in 0 .. dim - 1 |-> [c \in 0 .. dim - 1 |->
                            IF r # c THEN Zero
                            ELSE IF r = 1 THEN <<U.mat[1][1][1], U.mat[1][2][1]>>
                            ELSE IF r = 2 THEN <<U.mat[1][1][1], 0 - U.mat[1][2][1]>>
                            ELSE U.mat[r][r]]],
                       U.den2),
          V |-> Scaled([r \in 0 .. dim - 1 |-> [c \in 0 .. dim - 1 |->
                            IF r \in {0, 3} /\ c \in {0, 3}
                            THEN (IF r = 3 /\ c = 3 THEN <<-1, 0>> ELSE One)
                            ELSE IF r \in {1, 2} /\ c \in {1, 2}
                            THEN (IF r = 1 THEN One
                                  ELSE IF c = 1 THEN <<0, 1>> ELSE <<0, -1>>)
                            ELSE Zero]],
                       2)]

\* the gates a synthesized circuit is made of
SynthGates(n) ==
    {g \in {CNOT(c, t) : c \in 0 .. n - 1, t \in 0 .. n - 1} :
        g.params[1] # g.params[2]}
    \cup {RZ(a, q) : a \in Angles, q \in 0 .. n - 1}

\* the circuits the synthesizer may return for the eigenbasis factor V ...
VCandidates == SeqsUpTo(SynthGates(qubits), MaxLen)

\* ... and for the diagonal factor D, kept to at most one gate
DCandidates == SeqsUpTo(SynthGates(qubits), 1)

\* build_optimal_walsh_circuit(M): a circuit of CNOT and RZ gates; one that
\* evaluates to M whenever the candidates hold such a circuit
BuildOptimalWalshCircuit(M, candidates) ==
    LET exact == {c \in candidates : SameMatrix(M, GatesToMatrix(c, qubits))}
    IN IF exact # {} THEN exact ELSE candidates

\* mutant of Dagger: the RZ angles are not negated
DaggerNotNegated(c) ==
    [k \in 1 .. Len(c) |-> c[Len(c) + 1 - k]]

\* mutant of Dagger: the gate order is kept
DaggerNotReversed(c) ==
    [k \in 1 .. Len(c) |->
        IF c[k].gate_type = "CNOT"
        THEN [gate_type |-> c[k].gate_type, params |-> <<c[k].params[1], c[k].params[2]>>]
        ELSE [gate_type |-> c[k].gate_type,
              params |-> <<0 - c[k].params[1], c[k].params[2]>>]]

\* V_dagger_circuit: the gates of c in reversed order, every angle of a gate
\* that is not a CNOT negated
Dagger(c) ==
    LET reversed == [k \in 1 .. Len(c) |-> c[Len(c) + 1 - k]] IN
    [k \in 1 .. Len(c) |->
        LET g == reversed[k] IN
        IF g.gate_type = "CNOT"
        THEN [gate_type |-> g.gate_type, params |-> <<g.params[1], g.params[2]>>]
        ELSE [gate_type |-> g.gate_type, params |-> <<0 - g.params[1], g.params[2]>>]]

\* U_reconstructed = V_reconstructed @ D_reconstructed @ V_dagger_reconstructed
Reconstruct(Vr, Dr, Vd) ==
    MatMul(MatMul(Vr, Dr), Vd)

\* is_accurate = np.max(np.abs(U_original_np - U_reconstructed)) < 1e-6:
\* in exact arithmetic, the two matrices are the same
IsAccurate(U, Ur) ==
    SameMatrix(U, Ur)

\* the statements of one pass of the loop body, in program order
StepOrder == <<"construct", "diagonalize", "compile_V", "compile_D", "eval_V",
               "eval_D", "build_V_dagger", "eval_V_dagger", "product",
               "compare", "unitary_check">>

\* mutant of AfterCompare: a rejected reconstruction starts the pattern again
AfterCompareRetry(accurate) ==
    IF accurate THEN "unitary_check" ELSE "construct"

\* the statement that follows the comparison: both branches of the if only
\* print and fall through to the unitarity check
AfterCompare(accurate) ==
    "unitary_check"

pattern_name == patterns[pattern_idx]

\* a driver statement was executed
Log(s) == trace' = Append(trace, <<pattern_name, s>>)

NoCall == pc = "idle" /\ UNCHANGED evalVars

\* Step 1: U_original = create_rbs_network_from_pattern(pattern_name, qubits)
Construct ==
    /\ step = "construct"
    /\ U_original' \in CreateRbsNetwork(pattern_name, qubits)
    /\ step' = "diagonalize"
    /\ Log("construct")
    /\ NoCall
    /\ UNCHANGED <<pattern_idx, D, V, V_circuit, D_circuit, V_reconstructed,
                   D_reconstructed, V_dagger_circuit, V_dagger_reconstructed,
                   U_reconstructed, is_accurate, stdout>>

\* Step 2: D, V = diagonalize_unitary(U_original)
Diagonalize ==
    /\ step = "diagonalize"
    /\ D' = DiagonalizeUnitary(U_original).D
    /\ V' = DiagonalizeUnitary(U_original).V
    /\ step' = "compile_V"
    /\ Log("diagonalize")
    /\ NoCall
    /\ UNCHANGED <<pattern_idx, U_original, V_circuit, D_circuit, V_reconstructed,
                   D_reconstructed, V_dagger_circuit, V_dagger_reconstructed,
                   U_reconstructed, is_accurate, stdout>>

\* Step 3: V_circuit = build_optimal_walsh_circuit(V)
CompileV ==
    /\ step = "compile_V"
    /\ V_circuit' \in BuildOptimalWalshCircuit(V, VCandidates)
    /\ step' = "compile_D"
    /\ Log("compile_V")
    /\ NoCall
    /\ UNCHANGED <<pattern_idx, U_original, D, V, D_circuit, V_reconstructed,
                   D_reconstructed, V_dagger_circuit, V_dagger_reconstructed,
                   U_reconstructed, is_accurate, stdout>>

\* Step 4: D_circuit = build_optimal_walsh_circuit(D_np)
CompileD ==
    /\ step = "compile_D"
    /\ D_circuit' \in BuildOptimalWalshCircuit(D, DCandidates)
    /\ step' = "eval_V"
    /\ Log("compile_D")
    /\ NoCall
    /\ UNCHANGED <<pattern_idx, U_original, D, V, V_circuit, V_reconstructed,
                   D_reconstructed, V_dagger_circuit, V_dagger_reconstructed,
                   U_reconstructed, is_accurate, stdout>>

\* the call gates_to_matrix(c, qubits) is entered
Call(s, c) ==
    /\ step = s
    /\ pc = "idle"
    /\ Enter(c, qubits)
    /\ UNCHANGED driverVars

\* a loop iteration of the call in progress
CallStep ==
    /\ step \in {"eval_V", "eval_D", "eval_V_dagger"}
    /\ StepCNOT \/ StepRZ
    /\ UNCHANGED driverVars

\* the call in progress returns
CallReturn ==
    /\ step \in {"eval_V", "eval_D", "eval_V_dagger"}
    /\ Return
    /\ UNCHANGED driverVars

\* the call has returned to the driver: its frame (circuit, matrix, the loop
\* position) is gone
Returned(s) ==
    /\ step = s
    /\ pc = "returned"
    /\ pc' = "idle"
    /\ circuit' = <<>>
    /\ matrix' = <<>>
    /\ pos' = 1
    /\ Log(s)
    /\ UNCHANGED <<num_qubits, error>>

\* Step 5: V_reconstructed = gates_to_matrix(V_circuit, qubits)
EvalV ==
    \/ Call("eval_V", V_circuit)
    \/ /\ Returned("eval_V")
       /\ V_reconstructed' = matrix
       /\ step' = "eval_D"
       /\ UNCHANGED <<pattern_idx, U_original, D, V, V_circuit, D_circuit,
                      D_reconstructed, V_dagger_circuit, V_dagger_reconstructed,
                      U_reconstructed, is_accurate, stdout>>

\* D_reconstructed = gates_to_matrix(D_circuit, qubits)
EvalD ==
    \/ Call("eval_D", D_circuit)
    \/ /\ Returned("eval_D")
       /\ D_reconstructed' = matrix
       /\ step' = "build_V_dagger"
       /\ UNCHANGED <<pattern_idx, U_original, D, V, V_circuit, D_circuit,
                      V_reconstructed, V_dagger_circuit, V_dagger_reconstructed,
                      U_reconstructed, is_accurate, stdout>>

\* V_dagger_circuit = reversed V_circuit with the RZ angles negated
BuildVDagger ==
    /\ step = "build_V_dagger"
    /\ V_dagger_circuit' = Dagger(V_circuit)
    /\ step' = "eval_V_dagger"
    /\ Log("build_V_dagger")
    /\ NoCall
    /\ UNCHANGED <<pattern_idx, U_original, D, V, V_circuit, D_circuit,
                   V_reconstructed, D_reconstructed, V_dagger_reconstructed,
                   U_reconstructed, is_accurate, stdout>>

\* V_dagger_reconstructed = gates_to_matrix(V_dagger_circuit, qubits)
EvalVDagger ==
    \/ Call("eval_V_dagger", V_dagger_circuit)
    \/ /\ Returned("eval_V_dagger")
       /\ V_dagger_reconstructed' = matrix
       /\ step' = "product"
       /\ UNCHANGED <<pattern_idx, U_original, D, V, V_circuit, D_circuit,
                      V_reconstructed, D_reconstructed, V_dagger_circuit,
                      U_reconstructed, is_accurate, stdout>>

\* U_reconstructed = V_reconstructed @ D_reconstructed @ V_dagger_reconstructed
Product ==
    /\ step = "product"
    /\ U_reconstructed' =
          Reconstruct(V_reconstructed, D_reconstructed, V_dagger_reconstructed)
    /\ step' = "compare"
    /\ Log("product")
    /\ NoCall
    /\ UNCHANGED <<pattern_idx, U_original, D, V, V_circuit, D_circuit,
                   V_reconstructed, D_reconstructed, V_dagger_circuit,
                   V_dagger_reconstructed, is_accurate, stdout>>

\* Step 6: is_accurate = difference < 1e-6, then SUCCESS or WARNING is printed
Compare ==
    /\ step = "compare"
    /\ is_accurate' = IsAccurate(U_original, U_reconstructed)
    /\ stdout' = stdout \cup {IF is_accurate' THEN "SUCCESS: RECONSTRUCTION ACCURATE!"
                              ELSE "WARNING: Reconstruction has error"}
    /\ step' = AfterCompare(is_accurate')
    /\ Log("compare")
    /\ NoCall
    /\ UNCHANGED <<pattern_idx, U_original, D, V, V_circuit, D_circuit,
                   V_reconstructed, D_reconstructed, V_dagger_circuit,
                   V_dagger_reconstructed, U_reconstructed>>

\* the unitarity report, then the next pattern or the end of the for loop.
\* The next pass assigns every variable of the loop body before it reads it,
\* so the values of the finished pass are dead and are dropped here.
UnitaryCheck ==
    /\ step = "unitary_check"
    /\ Log("unitary_check")
    /\ IF pattern_idx < Len(patterns)
       THEN pattern_idx' = pattern_idx + 1 /\ step' = "construct"
       ELSE pattern_idx' = pattern_idx /\ step' = "summary"
    /\ U_original' = <<>>
    /\ D' = <<>>
    /\ V' = <<>>
    /\ V_circuit' = <<>>
    /\ D_circuit' = <<>>
    /\ V_reconstructed' = <<>>
    /\ D_reconstructed' = <<>>
    /\ V_dagger_circuit' = <<>>
    /\ V_dagger_reconstructed' = <<>>
    /\ U_reconstructed' = <<>>
    /\ NoCall
    /\ UNCHANGED <<is_accurate, stdout>>

\* the banner and the summary lines, printed whatever the loop found
Summary ==
    /\ step = "summary"
    /\ stdout' = stdout \cup {"DECOMPOSITION TEST COMPLETE",
                              "Reconstruction from gates matches original unitary"}
    /\ step' = "done"
    /\ NoCall
    /\ UNCHANGED <<pattern_idx, U_original, D, V, V_circuit, D_circuit,
                   V_reconstructed, D_reconstructed, V_dagger_circuit,
                   V_dagger_reconstructed, U_reconstructed, is_accurate, trace>>

InitDriver ==
    /\ step = "construct"
    /\ pattern_idx = 1
    /\ U_original = <<>>
    /\ D = <<>>
    /\ V = <<>>
    /\ V_circuit = <<>>
    /\ D_circuit = <<>>
    /\ V_reconstructed = <<>>
    /\ D_reconstructed = <<>>
    /\ V_dagger_circuit = <<>>
    /\ V_dagger_reconstructed = <<>>
    /\ U_reconstructed = <<>>
    /\ is_accurate = FALSE
    /\ stdout = {}
    /\ trace = <<>>
    /\ num_qubits = qubits
    /\ circuit = <<>>
    /\ pos = 1
    /\ matrix = <<>>
    /\ pc = "idle"
    /\ error = "none"
    /\ InstallIdle

NextDriver ==
    \/ Construct /\ UNCHANGED installVars
    \/ Diagonalize /\ UNCHANGED installVars
    \/ CompileV /\ UNCHANGED installVars
    \/ CompileD /\ UNCHANGED installVars
    \/ EvalV /\ UNCHANGED installVars
    \/ EvalD /\ UNCHANGED installVars
    \/ BuildVDagger /\ UNCHANGED installVars
    \/ EvalVDagger /\ UNCHANGED installVars
    \/ CallStep /\ UNCHANGED installVars
    \/ CallReturn /\ UNCHANGED installVars
    \/ Product /\ UNCHANGED installVars
    \/ Compare /\ UNCHANGED installVars
    \/ UnitaryCheck /\ UNCHANGED installVars
    \/ Summary /\ UNCHANGED installVars

SpecDriver == InitDriver /\ [][NextDriver]_vars

(***************************************************************************)
(* _ensure_packages.  importable is the set of modules import_module finds  *)
(* at the moment; conda tells whether shutil.which('conda') finds conda.    *)
(* The outcome of an installer run is not decided by the script: it ends    *)
(* with success or failure, and after a success each package it was asked   *)
(* for may or may not be importable in the running interpreter.             *)
(***************************************************************************)
\* pkgs: the module names, which are also the pip names
pkgs == <<"torch", "torchvision", "matplotlib", "numpy">>

Range(q) == {q[k] : k \in 1 .. Len(q)}

NotIn(env, p) == p \notin env

\* missing = []; for mod_name, pip_name in pkgs: try import, except append
MissingFrom(env) ==
    SelectSeq(pkgs, LAMBDA p : NotIn(env, p))

\* missing.remove("numpy")
Remove(q, x) ==
    SelectSeq(q, LAMBDA p : p # x)

\* mutant of FinalCheck: the final import loop is left out
FinalCheckSkipped(env) ==
    "returned"

\* the final check: every module is imported again; an ImportError ends the
\* process through sys.exit(1)
FinalCheck(env) ==
    IF \A k \in 1 .. Len(pkgs) : pkgs[k] \in env THEN "returned" ELSE "exited"

\* lines 25-30: the first scan for missing modules
FirstCheck ==
    /\ ipc = "first_check"
    /\ missing' = MissingFrom(importable)
    /\ ipc' = "numpy_special"
    /\ UNCHANGED <<importable, conda, conda_calls, pip_calls, pip_args,
                   pip_result, env_at_pip, exit_status>>

\* numpy was found: the conda block is passed over
NumpyPresent ==
    /\ ipc = "numpy_special"
    /\ "numpy" \notin Range(missing)
    /\ ipc' = "second_check"
    /\ UNCHANGED <<importable, conda, conda_calls, missing, pip_calls, pip_args,
                   pip_result, env_at_pip, exit_status>>

\* numpy is missing and conda is not on the path
CondaUnavailable ==
    /\ ipc = "numpy_special"
    /\ "numpy" \in Range(missing)
    /\ ~conda
    /\ ipc' = "second_check"
    /\ UNCHANGED <<importable, conda, conda_calls, missing, pip_calls, pip_args,
                   pip_result, env_at_pip, exit_status>>

\* conda install -y numpy ends with return code 0: numpy leaves the list
CondaSucceeds ==
    /\ ipc = "numpy_special"
    /\ "numpy" \in Range(missing)
    /\ conda
    /\ conda_calls' = conda_calls + 1
    /\ importable' \in {importable, importable \cup {"numpy"}}
    /\ missing' = Remove(missing, "numpy")
    /\ ipc' = "second_check"
    /\ UNCHANGED <<conda, pip_calls, pip_args, pip_result, env_at_pip,
                   exit_status>>

\* conda install -y numpy ends with another return code
CondaFails ==
    /\ ipc = "numpy_special"
    /\ "numpy" \in Range(missing)
    /\ conda
    /\ conda_calls' = conda_calls + 1
    /\ ipc' = "second_check"
    /\ UNCHANGED <<importable, conda, missing, pip_calls, pip_args, pip_result,
                   env_at_pip, exit_status>>

\* lines 44-49: the list is built again from what imports now
SecondCheck ==
    /\ ipc = "second_check"
    /\ missing' = MissingFrom(importable)
    /\ ipc' = "pip_branch"
    /\ UNCHANGED <<importable, conda, conda_calls, pip_calls, pip_args,
                   pip_result, env_at_pip, exit_status>>

\* nothing is missing: "All dependencies already satisfied"
NothingMissing ==
    /\ ipc = "pip_branch"
    /\ missing = <<>>
    /\ ipc' = "final_check"
    /\ UNCHANGED <<importable, conda, conda_calls, missing, pip_calls, pip_args,
                   pip_result, env_at_pip, exit_status>>

\* check_call([sys.executable, "-m", "pip", "install"] + missing) returns
PipSucceeds ==
    /\ ipc = "pip_branch"
    /\ missing # <<>>
    /\ pip_calls' = pip_calls + 1
    /\ pip_args' = missing
    /\ env_at_pip' = importable
    /\ pip_result' = "ok"
    /\ importable' \in {importable \cup got : got \in SUBSET Range(missing)}
    /\ ipc' = "final_check"
    /\ UNCHANGED <<conda, conda_calls, missing, exit_status>>

\* check_call raises CalledProcessError: the handler ends in sys.exit(1)
PipFails ==
    /\ ipc = "pip_branch"
    /\ missing # <<>>
    /\ pip_calls' = pip_calls + 1
    /\ pip_args' = missing
    /\ env_at_pip' = importable
    /\ pip_result' = "failed"
    /\ ipc' = "exited"
    /\ exit_status' = 1
    /\ UNCHANGED <<importable, conda, conda_calls, missing>>

\* lines 65-71
FinalImports ==
    /\ ipc = "final_check"
    /\ ipc' = FinalCheck(importable)
    /\ exit_status' = IF ipc' = "exited" THEN 1 ELSE exit_status
    /\ UNCHANGED <<importable, conda, conda_calls, missing, pip_calls, pip_args,
                   pip_result, env_at_pip>>

EvalIdle ==
    /\ num_qubits = 1
    /\ circuit = <<>>
    /\ pos = 1
    /\ matrix = <<>>
    /\ pc = "idle"
    /\ error = "none"

InitInstall ==
    /\ ipc = "first_check"
    /\ importable \in SUBSET Range(pkgs)
    /\ conda \in BOOLEAN
    /\ conda_calls = 0
    /\ missing = <<>>
    /\ pip_calls = 0
    /\ pip_args = <<>>
    /\ pip_result = "none"
    /\ env_at_pip = {}
    /\ exit_status = -1
    /\ EvalIdle
    /\ DriverIdle

NextInstall ==
    \/ FirstCheck /\ UNCHANGED <<evalVars, driverVars>>
    \/ NumpyPresent /\ UNCHANGED <<evalVars, driverVars>>
    \/ CondaUnavailable /\ UNCHANGED <<evalVars, driverVars>>
    \/ CondaSucceeds /\ UNCHANGED <<evalVars, driverVars>>
    \/ CondaFails /\ UNCHANGED <<evalVars, driverVars>>
    \/ SecondCheck /\ UNCHANGED <<evalVars, driverVars>>
    \/ NothingMissing /\ UNCHANGED <<evalVars, driverVars>>
    \/ PipSucceeds /\ UNCHANGED <<evalVars, driverVars>>
    \/ PipFails /\ UNCHANGED <<evalVars, driverVars>>
    \/ FinalImports /\ UNCHANGED <<evalVars, driverVars>>

SpecInstall == InitInstall /\ [][NextInstall]_vars

(***************************************************************************)
(* Vocabulary of the properties.                                           *)
(***************************************************************************)
InRange(q, n) == q \in 0 .. n - 1

\* the qubit indices a gate names
GateIndices(g) ==
    IF g.gate_type = "CNOT" THEN {g.params[1], g.params[2]}
    ELSE IF g.gate_type = "RZ" THEN {g.params[2]}
    ELSE {}

OnlyCnotRz(c) == \A k \in 1 .. Len(c) : c[k].gate_type \in {"CNOT", "RZ"}

IndicesInRange(c, n) ==
    \A k \in 1 .. Len(c) : \A q \in GateIndices(c[k]) : InRange(q, n)

DistinctCnot(c) ==
    \A k \in 1 .. Len(c) :
        c[k].gate_type = "CNOT" => c[k].params[1] # c[k].params[2]

\* a Circuit of the data model: CNOT and RZ gates, indices in range,
\* control and target distinct
WellFormed(c, n) == OnlyCnotRz(c) /\ IndicesInRange(c, n) /\ DistinctCnot(c)

IsUnitary(M) == MatMul(M, ConjT(M)) = Eye(Cardinality(DOMAIN M))

\* bit q of the basis index i, bit 0 least significant
BitOf(i, q) == (i \div (2 ^ q)) % 2

\* M times the column vector v
MatVec(M, v) ==
    Stored([r \in DOMAIN M |->
        LET RECURSIVE Acc(_)
            Acc(k) == IF k = Cardinality(DOMAIN M) THEN Zero
                      ELSE CAdd(CMul(M[r][k], v[k]), Acc(k + 1))
        IN Acc(0)])

BasisVector(x, dim) == [r \in 0 .. dim - 1 |-> IF r = x THEN One ELSE Zero]

RECURSIVE StateAfter(_, _, _, _)
\* the state vector after the first k gates of c have acted on v, the
\* first-listed gate first
StateAfter(c, k, v, dim) ==
    IF k = 0 THEN v
    ELSE MatVec(BuildGate(c[k], dim).m, StateAfter(c, k - 1, v, dim))

(***************************************************************************)
(* C2 as stated: a returned matrix of a circuit of CNOT and RZ gates with   *)
(* indices in [0,n), any control/target pair allowed, is unitary.           *)
(***************************************************************************)
C2_UnitaryAnyPair ==
    (pc = "returned" /\ OnlyCnotRz(circuit) /\ IndicesInRange(circuit, num_qubits))
        => IsUnitary(matrix)

(***************************************************************************)
(* C2 amended: a returned matrix of a circuit of CNOT gates with distinct   *)
(* control and target in [0,n) and RZ gates with qubit in [0,n) is unitary. *)
(***************************************************************************)
C2_UnitaryWellFormed ==
    (pc = "returned" /\ WellFormed(circuit, num_qubits)) => IsUnitary(matrix)

C2_Witness ==
    /\ pc = "returned"
    /\ WellFormed(circuit, num_qubits)
    /\ \E k \in 1 .. Len(circuit) : circuit[k].gate_type = "CNOT"
    /\ \E k \in 1 .. Len(circuit) : circuit[k].gate_type = "RZ"

(***************************************************************************)
(* C3: the returned matrix is G_k * ... * G_1: its column x is the state    *)
(* reached from basis state x by letting the gates act in list order, the   *)
(* first-listed gate first.                                                *)
(***************************************************************************)
C3_CompositionOrder ==
    pc = "returned" =>
        \A x \in 0 .. Dim - 1 :
            LET out == StateAfter(circuit, Len(circuit), BasisVector(x, Dim), Dim)
            IN \A r \in 0 .. Dim - 1 : matrix[r][x] = out[r]

\* CNOT(0,1) followed by CNOT(1,0), which do not commute: basis state 1
\* goes to 3 under the first and then to 2 under the second
C3_Witness ==
    /\ pc = "returned"
    /\ circuit = <<CNOT(0, 1), CNOT(1, 0)>>
    /\ matrix[2][1] = One

CnotImage(i, c, t) ==
    IF BitOf(i, c) = 1
    THEN (IF BitOf(i, t) = 1 THEN i - 2 ^ t ELSE i + 2 ^ t)
    ELSE i

\* e^{+i theta/2} for theta = k * pi, as a Gaussian integer
PhasePlus(k) ==
    IF k % 2 = 0 THEN (IF k % 4 = 0 THEN <<1, 0>> ELSE <<-1, 0>>)
    ELSE (IF k % 4 = 1 THEN <<0, 1>> ELSE <<0, -1>>)

(***************************************************************************)
(* C4: a single well-formed CNOT(c,t) returns the permutation matrix of     *)
(* i -> i XOR 2^t when bit c of i is 1, i -> i otherwise; a single          *)
(* RZ(theta,q) returns the diagonal matrix with e^{-i theta/2} where bit q  *)
(* is 1 and e^{+i theta/2} where bit q is 0.                                *)
(***************************************************************************)
C4_SingleGate ==
    (pc = "returned" /\ Len(circuit) = 1 /\ WellFormed(circuit, num_qubits)) =>
        LET g == circuit[1] IN
        \A r \in 0 .. Dim - 1 : \A x \in 0 .. Dim - 1 :
            matrix[r][x] =
                IF g.gate_type = "CNOT"
                THEN (IF r = CnotImage(x, g.params[1], g.params[2]) THEN One ELSE Zero)
                ELSE (IF r # x THEN Zero
                      ELSE IF BitOf(x, g.params[2]) = 1
                           THEN CConj(PhasePlus(g.params[1]))
                           ELSE PhasePlus(g.params[1]))

\* RZ(pi, 0) on two qubits: -i on the odd indices, +i on the even ones
C4_Witness ==
    /\ pc = "returned"
    /\ num_qubits = 2
    /\ circuit = <<RZ(1, 0)>>
    /\ matrix[1][1] = <<0, -1>>
    /\ matrix[2][2] = <<0, 1>>

(***************************************************************************)
(* C5 as stated: a call whose circuit holds a CNOT or RZ gate with a qubit  *)
(* index outside [0,n) never returns a matrix.                              *)
(***************************************************************************)
C5_OutOfRangeSurfaced ==
    pc = "returned" => IndicesInRange(circuit, num_qubits)

(***************************************************************************)
(* C1: for a well-formed circuit c, gates_to_matrix of the reversed circuit *)
(* with negated RZ angles is the conjugate transpose of gates_to_matrix(c), *)
(* and the product of the two matrices is the identity.                     *)
(***************************************************************************)
C1_InverseCircuit ==
    (pc = "returned" /\ WellFormed(circuit, num_qubits)) =>
        LET inverse == GatesToMatrix(Dagger(circuit), num_qubits) IN
        /\ inverse = ConjT(matrix)
        /\ MatMul(matrix, inverse) = Eye(Dim)

\* an RZ on the target of a CNOT: the two gates do not commute and the
\* rotation is not its own inverse
C1_Witness ==
    /\ pc = "returned"
    /\ num_qubits = 2
    /\ circuit = <<RZ(1, 1), CNOT(0, 1)>>
    /\ matrix # ConjT(matrix)

(***************************************************************************)
(* C6 as stated: every pattern's reconstruction V D V^dagger from the gate  *)
(* lists equals the original unitary, so the driver accepts it.             *)
(***************************************************************************)
C6_ReconstructionAccepted ==
    step = "unitary_check" => is_accurate

ExpectedTrace ==
    [k \in 1 .. Len(patterns) * Len(StepOrder) |->
        <<patterns[((k - 1) \div Len(StepOrder)) + 1],
          StepOrder[((k - 1) % Len(StepOrder)) + 1]>>]

IsPrefix(s, t) == Len(s) <= Len(t) /\ \A k \in 1 .. Len(s) : s[k] = t[k]

\* once both circuits are compiled, no statement up to and including the
\* comparison changes them
CircuitsKept ==
    step \in {"eval_V", "eval_D", "build_V_dagger", "eval_V_dagger", "product",
              "compare"}
        => (V_circuit' = V_circuit /\ D_circuit' = D_circuit)

\* the statement the driver is at can run: no call is pending where none is
\* made, and a pending call is at a gate whose branch raises nothing, or at
\* its return
DriverCanStep ==
    IF step \in {"eval_V", "eval_D", "eval_V_dagger"}
    THEN \/ pc \in {"idle", "returned"}
         \/ /\ pc = "loop"
            /\ \/ pos > Len(circuit)
               \/ /\ circuit[pos].gate_type \in {"CNOT", "RZ"}
                  /\ BuildGate(circuit[pos], Dim).ok
    ELSE /\ pc = "idle"
         /\ step = "construct" => CreateRbsNetwork(pattern_name, qubits) # {}

TraceInOrder ==
    /\ IsPrefix(trace, ExpectedTrace)
    /\ step \in {"summary", "done"} => trace = ExpectedTrace
    /\ step # "done" => DriverCanStep

(***************************************************************************)
(* C7: the statements of the loop body run exactly once per pattern, in     *)
(* program order and in the order of the patterns list, whatever the        *)
(* comparisons find; the circuits of a pattern are not changed once         *)
(* compiled; the driver can always take its next step until the banner is   *)
(* printed, and by then every pattern has been through every statement.     *)
(***************************************************************************)
C7_NoRetries ==
    []TraceInOrder /\ [][CircuitsKept]_vars

\* a run that rejected a reconstruction and still printed the banner
C7_Witness ==
    /\ step = "done"
    /\ "WARNING: Reconstruction has error" \in stdout
    /\ "DECOMPOSITION TEST COMPLETE" \in stdout

(***************************************************************************)
(* C8 as stated: a run that prints the summary line "Reconstruction from    *)
(* gates matches original unitary" printed no reconstruction-error warning. *)
(***************************************************************************)
C8_SummaryTruthful ==
    "Reconstruction from gates matches original unitary" \in stdout
        => "WARNING: Reconstruction has error" \notin stdout

NonZeroInRow(M, r) == {c \in DOMAIN M : M[r][c] # Zero}
NonZeroInColumn(M, c) == {r \in DOMAIN M : M[r][c] # Zero}
Modulus2(z) == z[1] * z[1] + z[2] * z[2]

IsMonomial(M) ==
    /\ \A r \in DOMAIN M : Cardinality(NonZeroInRow(M, r)) = 1
    /\ \A c \in DOMAIN M : Cardinality(NonZeroInColumn(M, c)) = 1
    /\ \A r \in DOMAIN M : \A c \in DOMAIN M :
           M[r][c] # Zero => Modulus2(M[r][c]) = 1

(***************************************************************************)
(* C10: inside every call of gates_to_matrix the driver makes, the matrix   *)
(* held after any number of gates has exactly one non-zero entry, of        *)
(* modulus 1, in each row and each column; so has the product               *)
(* V D V^dagger, which is moreover diagonal whenever the D circuit          *)
(* evaluates to a diagonal matrix.                                          *)
(***************************************************************************)
C10_MonomialClosure ==
    /\ pc \in {"loop", "returned"} => IsMonomial(matrix)
    /\ step \in {"compare", "unitary_check"} =>
          /\ IsMonomial(U_reconstructed)
          /\ IsDiagonalMatrix(D_reconstructed) => IsDiagonalMatrix(U_reconstructed)

\* a V circuit that permutes and rotates, around a diagonal D that is not
\* the identity
C10_Witness ==
    /\ step = "compare"
    /\ V_circuit = <<CNOT(0, 1), RZ(1, 0)>>
    /\ D_circuit = <<RZ(1, 1)>>
    /\ ~IsDiagonalMatrix(V_reconstructed)
    /\ IsDiagonalMatrix(U_reconstructed)
    /\ U_reconstructed # D_reconstructed

(***************************************************************************)
(* C9: _ensure_packages returns only with all four modules importable; a    *)
(* failed pip install or a module that is still not importable at the final *)
(* check ends the process with exit status 1; pip runs at most once, not    *)
(* before the conda block is through, and exactly with the packages that    *)
(* are not importable at that moment.                                       *)
(***************************************************************************)
C9_BootstrapOutcome ==
    /\ ipc = "returned" => (importable = Range(pkgs) /\ exit_status # 1)
    /\ ipc \in {"returned", "exited"} =>
          ((pip_result = "failed" \/ importable # Range(pkgs))
              => (ipc = "exited" /\ exit_status = 1))
    /\ ipc \notin {"returned", "exited"} =>
          (pip_result # "failed" /\ exit_status = -1)
    /\ pip_calls <= 1
    /\ ipc \in {"first_check", "numpy_special", "second_check"} => pip_calls = 0
    /\ conda_calls <= 1
    /\ pip_calls = 1 =>
          (pip_args # <<>> /\ pip_args = MissingFrom(env_at_pip))

\* conda reported success, numpy was still not importable, pip was asked for
\* it and for torch, and the final check still failed on one of them
C9_Witness ==
    /\ ipc = "exited"
    /\ conda_calls = 1
    /\ pip_result = "ok"
    /\ pip_args = <<"torch", "numpy">>
    /\ importable # Range(pkgs)
    /\ exit_status = 1

====
